---- MODULE Spec2Model ----
(***************************************************************************)
(* Harbor webhook receiver (tools/harbor_sync/webhook_receiver.py):        *)
(* payload normalizer, event dispatcher and the reconciliation engine      *)
(* running its statements against a READ COMMITTED relational store.       *)
(***************************************************************************)
EXTENDS Integers, Sequences, FiniteSets, TLC

\* ------------------------------------------------------------------ bounds
NumProcs == 2
MaxRequests == 3
MaxFaults == 1
\* psycopg2 ThreadedConnectionPool(maxconn=20)
MaxConn == 20

Procs == 1..NumProcs

\* ------------------------------------------------------------ JSON values
JNull == [t |-> "null"]
JStr(s) == [t |-> "str", s |-> s]
JList(q) == [t |-> "list", l |-> q]
JDict(f) == [t |-> "dict", d |-> f]
EmptyFn == [k \in {} |-> JNull]
JEmptyDict == JDict(EmptyFn)
JEmptyList == JList(<<>>)

IsDict(v) == v.t = "dict"
IsStr(v) == v.t = "str"
IsList(v) == v.t = "list"

\* Python truth value of a JSON value
Truthy(v) ==
  CASE v.t = "null" -> FALSE
    [] v.t = "str" -> v.s # ""
    [] v.t = "list" -> Len(v.l) > 0
    [] v.t = "dict" -> DOMAIN v.d # {}

\* dict.get(k, default)
GetD(v, k, default) == IF k \in DOMAIN v.d THEN v.d[k] ELSE default
\* dict.get(k)
Get(v, k) == GetD(v, k, JNull)
\* a or b
Or(a, b) == IF Truthy(a) THEN a ELSE b

\* str.lower() on the type strings of the payload family
Lower(s) ==
  CASE s = "DELETE_ARTIFACT" -> "delete_artifact"
    [] s = "PUSH_ARTIFACT" -> "push_artifact"
    [] OTHER -> s
\* 'delete' in s
ContainsDelete(s) == s \in {"delete_artifact", "delete"}
\* iterating a str yields its characters
Chars(s) ==
  CASE s = "" -> <<>>
    [] s = "v1" -> <<"v", "1">>
    [] s = "v2" -> <<"v", "2">>
    [] OTHER -> <<s>>

\* result of a call: a value, or a raised exception
Ok(v) == [err |-> FALSE, v |-> v]
Raise == [err |-> TRUE, v |-> <<>>]

\* ------------------------------------------------- payload normalizer
\* a (repo, tag) tuple; tag is JNull for Python None
Pair(repo, tag) == <<repo, tag>>

\* lines 263-273: repository name of one resource entry
current_repo(res, global_repo_name) ==
  LET repo_obj == Or(Or(Get(res, "repository"), Get(res, "repo")), Get(res, "resource"))
      local == IF IsDict(repo_obj)
                 THEN Or(Get(repo_obj, "repo_full_name"), Get(repo_obj, "name"))
                 ELSE IF IsStr(repo_obj) THEN repo_obj ELSE JNull
  IN IF ~Truthy(local) THEN global_repo_name ELSE local

\* lines 276-278: tags of one resource entry (tags.append needs a list)
res_tags(res) ==
  LET tags == GetD(res, "tags", JEmptyList)
  IN IF Truthy(Get(res, "tag"))
       THEN IF IsList(tags) THEN Ok(JList(Append(tags.l, Get(res, "tag")))) ELSE Raise
       ELSE Ok(tags)

\* the elements a Python for-loop visits in a truthy value
IterSeq(v) ==
  CASE v.t = "list" -> v.l
    [] v.t = "str" -> [i \in 1..Len(Chars(v.s)) |-> JStr(Chars(v.s)[i])]
    [] v.t = "dict" -> IF DOMAIN v.d = {} THEN <<>> ELSE <<JStr(CHOOSE k \in DOMAIN v.d : TRUE)>>
    [] OTHER -> <<>>

\* lines 285-287
tag_pairs(repo, ts) ==
  [i \in 1..Len(ts) |-> Pair(repo, IF IsDict(ts[i]) THEN Get(ts[i], "name") ELSE ts[i])]

\* lines 280-287: the pairs of one entry, given its repository and its tags
emit_pairs(repo, tg) ==
  IF tg.err THEN Raise
  ELSE IF ~Truthy(repo) THEN Ok(<<>>)
  ELSE IF ~Truthy(tg.v) THEN Ok(<<Pair(repo, JNull)>>)
  ELSE Ok(tag_pairs(repo, IterSeq(tg.v)))

\* lines 261-287, one iteration of the loop over res_list (res.get needs a dict)
res_pairs(res, global_repo_name) ==
  IF ~IsDict(res) THEN Raise
  ELSE emit_pairs(current_repo(res, global_repo_name), res_tags(res))

RECURSIVE res_loop(_, _, _, _)
\* the loop body's result r is appended, or its exception ends the loop
loop_step(rl, i, global_repo_name, acc, r) ==
  IF r.err THEN Raise ELSE res_loop(rl, i + 1, global_repo_name, acc \o r.v)
\* lines 261-287: for res in res_list
res_loop(rl, i, global_repo_name, acc) ==
  IF i > Len(rl) THEN Ok(acc)
  ELSE loop_step(rl, i, global_repo_name, acc, res_pairs(rl[i], global_repo_name))

\* line 289: "if resources: return resources"; ret says the function is done
modern_result(r) == [err |-> r.err, v |-> r.v, ret |-> r.err \/ Len(r.v) > 0]

\* lines 254-258: the resource list, or the single resource as a list
res_list(data_node, rl0) ==
  IF ~Truthy(rl0) /\ Truthy(Get(data_node, "resource"))
    THEN JList(<<Get(data_node, "resource")>>) ELSE rl0

\* lines 250-287 on a data node that is a mapping (iterating None raises)
modern_pairs(global_repo_info, rl) ==
  IF ~IsDict(global_repo_info) \/ rl.t = "null" THEN [err |-> TRUE, v |-> <<>>, ret |-> TRUE]
  ELSE modern_result(res_loop(IterSeq(rl), 1,
         Or(Get(global_repo_info, "repo_full_name"), Get(global_repo_info, "name")), <<>>))

\* lines 245-287
modern_node(data_node) ==
  IF ~IsDict(data_node) THEN [err |-> FALSE, v |-> <<>>, ret |-> TRUE]
  ELSE modern_pairs(GetD(data_node, "repository", JEmptyDict),
                    res_list(data_node, GetD(data_node, "resources", JEmptyList)))

\* lines 244-289: Strategy 1 on the data node
strategy_modern(payload) ==
  modern_node(Or(Or(Get(payload, "event_data"), Get(payload, "artifact")), payload))

\* lines 296-301
legacy_pairs(repo, tag, ty) ==
  IF Truthy(repo) /\ Truthy(tag) THEN Ok(<<Pair(repo, tag)>>)
  ELSE IF ~Truthy(repo) THEN Ok(<<>>)
  ELSE IF ~IsStr(ty) THEN Raise
  ELSE IF ContainsDelete(Lower(ty.s)) THEN Ok(<<Pair(repo, JNull)>>)
  ELSE Ok(<<>>)

\* lines 293-294
legacy_node(repository, push_data, ty) ==
  IF ~IsDict(repository) \/ ~IsDict(push_data) THEN Raise
  ELSE legacy_pairs(Get(repository, "name"), Get(push_data, "tag"), ty)

\* lines 293-301: Strategy 2 on the payload root
strategy_legacy(payload) ==
  legacy_node(GetD(payload, "repository", JEmptyDict),
              Or(Get(payload, "push_data"), JEmptyDict),
              GetD(payload, "type", JStr("")))

\* the first strategy's result when it returned, else the second's
first_result(m, legacy) == IF m.ret THEN [err |-> m.err, v |-> m.v] ELSE legacy

\* variant: the legacy shape is tried first
extract_legacy_first(payload) ==
  first_result([err |-> FALSE, v |-> strategy_legacy(payload).v,
                ret |-> ~strategy_legacy(payload).err /\ Len(strategy_legacy(payload).v) > 0],
               [err |-> strategy_modern(payload).err, v |-> strategy_modern(payload).v])
\* lines 234-301
extract_harbor_resources(payload) ==
  first_result(strategy_modern(payload), strategy_legacy(payload))

\* ----------------------------------------------------------- the store
\* SQL NULL in a timestamp column
Null == 0

VARIABLES
  db,          \* committed rows of repos, tags, image_pulls, allowed_images
  seqs,        \* the id sequences (never rolled back)
  ws,          \* per connection: rows written by the open transaction
  clock,       \* datetime.now()
  db_pool,     \* FALSE when the pool could not be created (db_pool is None)
  checkedOut,  \* connections handed out by the pool
  pc,          \* per request thread: position in webhook / process_*_event
  req,         \* per request thread: locals of webhook()
  loc,         \* per request thread: locals of process_*_event
  hist,        \* the last finished reconcile call; repeat: same call as the one before
  nreq,        \* requests received so far
  nfaults      \* store errors injected so far

vars == <<db, seqs, ws, clock, db_pool, checkedOut, pc, req, loc, hist, nreq, nfaults>>

EmptyTables == [repos |-> {}, tags |-> {}, image_pulls |-> {}, allowed_images |-> {}]

Ctids(rows) == {r.ctid : r \in rows}

\* rows replaced by new versions in a write set
Replace(rows, news) == {r \in rows : r.ctid \notin Ctids(news)} \cup news

\* what a statement of connection p reads: committed rows, with p's own
\* uncommitted versions in place of the committed ones, plus p's inserts
VRepos(p) == db.repos \cup ws[p].repos
VTags(p) == db.tags \cup ws[p].tags
VPulls(p) == Replace(db.image_pulls, ws[p].image_pulls)
VAllowed(p) == Replace(db.allowed_images, ws[p].allowed_images)

\* the tables after connection p commits
Committed(p) ==
  [repos |-> VRepos(p), tags |-> VTags(p), image_pulls |-> VPulls(p), allowed_images |-> VAllowed(p)]

\* uniqueness constraints of the schema
\* variant: the schema without the constraint on repos.full_name
repos_not_unique(a, b) == FALSE
repos_unique(a, b) == a.full_name = b.full_name
tags_unique(a, b) == a.repository_id = b.repository_id /\ a.tag = b.tag
image_pulls_unique(a, b) == a.tag_id = b.tag_id
allowed_images_unique(a, b) == a.name = b.name /\ a.tag = b.tag

\* ------------------------------------------------------------- payloads
StrSeq(q) == [i \in 1..Len(q) |-> JStr(q[i])]
\* Harbor 2.x shape: repository is a sibling of resources inside event_data
ModernPayload(ty, r, ts) ==
  JDict([type |-> JStr(ty),
         event_data |-> JDict([repository |-> JDict([repo_full_name |-> JStr(r)]),
                               resources |-> JList(<<JDict([tags |-> JList(StrSeq(ts))])>>)])])

\* the requests of the concurrent specification
EnginePayloads ==
  { ModernPayload("PUSH_ARTIFACT", "ns/img", <<"v1">>),
    ModernPayload("PUSH_ARTIFACT", "ns/img", <<"v1", "v2">>),
    ModernPayload("DELETE_ARTIFACT", "ns/img", <<"v1">>),
    ModernPayload("DELETE_ARTIFACT", "ns/img", <<>>) }

\* the requests of the sequential specification
SeqPayloads ==
  EnginePayloads \cup
  { ModernPayload("PUSH_ARTIFACT", "lib/app", <<"v1">>),
    ModernPayload("PUSH_ARTIFACT", "ns/img", <<>>),
    ModernPayload("DELETE_ARTIFACT", "ns/img", <<"">>),
    ModernPayload("DELETE_ARTIFACT", "ns/img", <<"v2", "v1">>) }

\* the requests of the pool specification
PoolPayloads ==
  { ModernPayload("PUSH_ARTIFACT", "ns/img", <<"v1">>),
    ModernPayload("DELETE_ARTIFACT", "ns/img", <<"v1">>) }

\* a key that is not in the object
Absent == [t |-> "absent"]
\* the JSON object with the keys of record f whose value is not Absent
Obj(f) == JDict([k \in {k \in DOMAIN f : f[k] # Absent} |-> f[k]])

NormTypes == {Absent, JNull, JStr("PUSH_ARTIFACT"), JStr("DELETE_ARTIFACT"), JStr("push_image")}
NormRepos ==
  {Absent, JStr("ns/img"), JDict([repo_full_name |-> JStr("ns/img")]), JDict([name |-> JStr("ns/img")])}
NormResources ==
  { Absent, JEmptyList,
    JList(<<JDict([tags |-> JList(<<JStr("v1"), JStr("v2")>>)])>>),
    JList(<<JDict([tags |-> JList(<<JDict([name |-> JStr("v2")])>>),
                   repository |-> JDict([name |-> JStr("lib/app")])])>>),
    JList(<<JDict([tags |-> JNull, tag |-> JStr("v1")])>>),
    JList(<<JDict([tag |-> JStr("v1")])>>),
    JList(<<JEmptyDict>>),
    JList(<<JStr("ns/img:v1")>>) }
NormPushData == {Absent, JDict([tag |-> JStr("v1")])}
NormWrappers == {"event_data", "artifact"}

\* payloads whose data node is the root
RootPayloads ==
  { Obj([type |-> ty, repository |-> rp, resources |-> rs, push_data |-> pd]) :
      ty \in NormTypes, rp \in NormRepos, rs \in NormResources, pd \in NormPushData }
\* payloads whose data node is under event_data or artifact
WrappedPayloads ==
  { Obj([type |-> ty, event_data |-> (IF w = "event_data" THEN Obj([repository |-> rp, resources |-> rs]) ELSE Absent),
         artifact |-> (IF w = "artifact" THEN Obj([repository |-> rp, resources |-> rs]) ELSE Absent),
         repository |-> rr, push_data |-> pd]) :
      ty \in NormTypes, w \in NormWrappers, rp \in NormRepos, rs \in NormResources,
      rr \in {Absent, JDict([name |-> JStr("ns/img")])}, pd \in NormPushData }
\* the request bodies of the normalizer specification; some are no objects
NormPayloads ==
  RootPayloads \cup WrappedPayloads \cup {JNull, JEmptyList, JStr("x"), JDict([event_data |-> JStr("x")])}

\* ------------------------------------------------------------ initial state
NoCall == [kind |-> "none", repo |-> "", tag |-> JNull, now |-> 0, repo_id |-> 0, tag_id |-> 0,
           rowcount |-> 0, retry |-> FALSE, txns |-> 0]
NoReq == [payload |-> JNull, is_delete |-> FALSE, items |-> <<>>, idx |-> 0, success_count |-> 0,
          log |-> <<>>, status |-> "none"]
NoHist == [kind |-> "none", repo |-> "", tag |-> JNull, now |-> 0, ok |-> FALSE, txns |-> 0, repeat |-> FALSE]

Init ==
  /\ db = EmptyTables
  /\ seqs = [repos |-> 1, tags |-> 1, ctid |-> 1]
  /\ ws = [p \in Procs |-> EmptyTables]
  /\ clock = 1
  /\ db_pool \in BOOLEAN
  /\ checkedOut = 0
  /\ pc = [p \in Procs |-> "idle"]
  /\ req = [p \in Procs |-> NoReq]
  /\ loc = [p \in Procs |-> NoCall]
  /\ hist = NoHist
  /\ nreq = 0
  /\ nfaults = 0

\* ------------------------------------------------------------- dispatcher
\* lines 323-327: nothing extracted; the log line calls .keys() on event_data
no_items(is_delete, ed) ==
  IF Truthy(ed) /\ ~IsDict(ed)
    THEN [status |-> "error", is_delete |-> is_delete, items |-> <<>>]
    ELSE [status |-> "ignored", is_delete |-> is_delete, items |-> <<>>]

\* lines 321-329
parsed(is_delete, items, ed) ==
  IF items.err THEN [status |-> "error", is_delete |-> is_delete, items |-> <<>>]
  ELSE IF Len(items.v) = 0 THEN no_items(is_delete, ed)
  ELSE [status |-> "processing", is_delete |-> is_delete, items |-> items.v]

\* lines 317-321: .lower() needs a str
classified(payload, event_type) ==
  IF ~IsStr(event_type) THEN [status |-> "error", is_delete |-> FALSE, items |-> <<>>]
  ELSE parsed(ContainsDelete(Lower(event_type.s)), extract_harbor_resources(payload),
              Get(payload, "event_data"))

\* lines 308-327: parse, classify, normalize; early returns
webhook_outcome(payload) ==
  IF ~Truthy(payload) THEN [status |-> "empty", is_delete |-> FALSE, items |-> <<>>]
  ELSE IF ~IsDict(payload) THEN [status |-> "error", is_delete |-> FALSE, items |-> <<>>]
  ELSE classified(payload, Or(Or(Get(payload, "type"), Get(payload, "action")), JStr("")))

\* webhook's locals when the loop over items starts
NewReq(payload, o) ==
  [payload |-> payload, is_delete |-> o.is_delete, items |-> o.items,
   idx |-> 1, success_count |-> 0, log |-> <<>>, status |-> o.status]

\* a request arrives and runs webhook() up to the loop over items
webhook(p, payloads, limit) ==
  /\ pc[p] = "idle"
  /\ nreq < limit
  /\ \E payload \in payloads : req' = [req EXCEPT ![p] = NewReq(payload, webhook_outcome(payload))]
  /\ pc' = [pc EXCEPT ![p] = IF req'[p].status = "processing" THEN "dispatch" ELSE "idle"]
  /\ nreq' = nreq + 1
  /\ UNCHANGED <<db, seqs, ws, clock, db_pool, checkedOut, loc, hist, nfaults>>

\* variant: the first failing item ends the loop
NextItem_abort(r, ok) ==
  [r EXCEPT !.idx = IF ok THEN r.idx + 1 ELSE Len(r.items) + 1,
            !.success_count = IF ok THEN r.success_count + 1 ELSE r.success_count,
            !.log = Append(r.log, [pair |-> r.items[r.idx], ok |-> ok])]
\* the loop moves to the next item; ok says whether success_count is bumped
NextItem(r, ok) ==
  [r EXCEPT !.idx = r.idx + 1,
            !.success_count = IF ok THEN r.success_count + 1 ELSE r.success_count,
            !.log = Append(r.log, [pair |-> r.items[r.idx], ok |-> ok])]

\* the call of thread p returns (ok) or raises into webhook's except clause
\* (lines 337-340)
FinishCall(p, c, ok) ==
  /\ hist' = [kind |-> c.kind, repo |-> c.repo, tag |-> c.tag, now |-> c.now, ok |-> ok, txns |-> c.txns,
              repeat |-> hist.ok /\ hist.kind = c.kind /\ hist.repo = c.repo /\ hist.tag = c.tag]
  /\ req' = [req EXCEPT ![p] = NextItem(@, ok)]
  /\ loc' = [loc EXCEPT ![p] = NoCall]
  /\ pc' = [pc EXCEPT ![p] = "dispatch"]

\* variant: a pair without a tag is handed to process_delete_event whatever
\* the event type
dispatch_tagless_delete(p) ==
  /\ pc[p] = "dispatch"
  /\ req[p].idx <= Len(req[p].items)
  /\ LET pair == req[p].items[req[p].idx]
         call == [NoCall EXCEPT !.kind = IF req[p].is_delete \/ ~Truthy(pair[2]) THEN "delete" ELSE "push",
                                !.repo = pair[1].s, !.tag = pair[2], !.now = clock, !.txns = 1]
     IN /\ clock' = clock + 1
        /\ IF ~db_pool \/ checkedOut >= MaxConn
             THEN /\ FinishCall(p, call, FALSE)
                  /\ UNCHANGED checkedOut
             ELSE /\ checkedOut' = checkedOut + 1
                  /\ loc' = [loc EXCEPT ![p] = call]
                  /\ pc' = [pc EXCEPT ![p] = IF call.kind = "push" THEN "sel_repo" ELSE "del_allowed"]
                  /\ UNCHANGED <<req, hist>>
  /\ UNCHANGED <<db, seqs, ws, db_pool, nreq, nfaults>>
\* lines 330-336, 157/202 and 58-61: one iteration starts. A push with a falsy
\* tag is skipped; otherwise process_*_event reads the clock and asks the pool
\* for a connection, which raises when there is no pool or no free connection
dispatch(p) ==
  /\ pc[p] = "dispatch"
  /\ req[p].idx <= Len(req[p].items)
  /\ LET pair == req[p].items[req[p].idx]
         call == [NoCall EXCEPT !.kind = IF req[p].is_delete THEN "delete" ELSE "push",
                                !.repo = pair[1].s, !.tag = pair[2], !.now = clock, !.txns = 1]
     IN IF req[p].is_delete \/ Truthy(pair[2])
          THEN /\ clock' = clock + 1
               /\ IF ~db_pool \/ checkedOut >= MaxConn
                    THEN /\ FinishCall(p, call, FALSE)
                         /\ UNCHANGED checkedOut
                    ELSE /\ checkedOut' = checkedOut + 1
                         /\ loc' = [loc EXCEPT ![p] = call]
                         /\ pc' = [pc EXCEPT ![p] = IF call.kind = "push" THEN "sel_repo" ELSE "del_allowed"]
                         /\ UNCHANGED <<req, hist>>
          ELSE /\ req' = [req EXCEPT ![p] = NextItem(@, TRUE)]
               /\ UNCHANGED <<loc, clock, pc, checkedOut, hist>>
  /\ UNCHANGED <<db, seqs, ws, db_pool, nreq, nfaults>>

\* line 342: the loop is over, the response carries the processed count
respond(p) ==
  /\ pc[p] = "dispatch"
  /\ req[p].idx > Len(req[p].items)
  /\ req' = [req EXCEPT ![p].status = "ok"]
  /\ pc' = [pc EXCEPT ![p] = "idle"]
  /\ UNCHANGED <<db, seqs, ws, clock, db_pool, checkedOut, loc, hist, nreq, nfaults>>

\* ------------------------------------------------- reconciliation engine
StmtPcs == {"sel_repo", "ins_repo", "sel_tag", "ins_tag", "upd_pull", "ins_pull",
            "upd_allowed", "ins_allowed", "del_allowed", "del_pull"}

\* variant: the connection goes back to the pool without conn.rollback()
Abort_no_rollback(p) ==
  /\ ws' = ws
  /\ checkedOut' = checkedOut - 1
  /\ FinishCall(p, loc[p], FALSE)
\* lines 67-72 and 338-340: an exception leaves the with block: rollback,
\* putconn, re-raise into webhook's except clause
Abort(p) ==
  /\ ws' = [ws EXCEPT ![p] = EmptyTables]
  /\ checkedOut' = checkedOut - 1
  /\ FinishCall(p, loc[p], FALSE)

\* lines 137, 150, 170, 192: cur.connection.rollback() ends the transaction and
\* drops every row it wrote; the next execute opens a new transaction
connection_rollback(w) == EmptyTables

\* variant: the handler rolls back and goes on with the last sub-step
OnIntegrityError_skip(p, stmt) ==
  /\ ws' = [ws EXCEPT ![p] = connection_rollback(@)]
  /\ loc' = [loc EXCEPT ![p].retry = TRUE, ![p].txns = @ + 1]
  /\ pc' = [pc EXCEPT ![p] = "upd_allowed"]
\* the except psycopg2.IntegrityError handlers: roll back, run stmt again
OnIntegrityError(p, stmt) ==
  /\ ws' = [ws EXCEPT ![p] = connection_rollback(@)]
  /\ loc' = [loc EXCEPT ![p].retry = TRUE, ![p].txns = @ + 1]
  /\ pc' = [pc EXCEPT ![p] = stmt]

\* the rows the INSERT at pc[p] adds
NewRepo(p) == [id |-> seqs.repos, full_name |-> loc[p].repo]
NewTag(p) == [id |-> seqs.tags, repository_id |-> loc[p].repo_id, tag |-> loc[p].tag.s]
NewPull(p) == [ctid |-> seqs.ctid, tag_id |-> loc[p].tag_id, is_pulled |-> TRUE, last_pulled_at |-> loc[p].now]
\* variant: the row is inserted as a restricted entry waiting for approval
NewAllowed_pending(p) ==
  [ctid |-> seqs.ctid, name |-> loc[p].repo, tag |-> loc[p].tag.s, tag_id |-> loc[p].tag_id,
   raw_name |-> loc[p].repo, raw_tag |-> loc[p].tag.s, is_global |-> FALSE, status |-> "pending",
   created_at |-> loc[p].now, updated_at |-> loc[p].now, deleted_at |-> Null]
NewAllowed(p) ==
  [ctid |-> seqs.ctid, name |-> loc[p].repo, tag |-> loc[p].tag.s, tag_id |-> loc[p].tag_id,
   raw_name |-> loc[p].repo, raw_tag |-> loc[p].tag.s, is_global |-> TRUE, status |-> "approved",
   created_at |-> loc[p].now, updated_at |-> loc[p].now, deleted_at |-> Null]

\* the SET clauses
\* variant: the update keeps the later of the two timestamps
SetPulled_latest(p, r) ==
  [r EXCEPT !.is_pulled = TRUE, !.last_pulled_at = IF @ > loc[p].now THEN @ ELSE loc[p].now]
SetPulled(p, r) == [r EXCEPT !.is_pulled = TRUE, !.last_pulled_at = loc[p].now]
\* variant: the update also refreshes updated_at
SetAllowed_touch(p, r) ==
  [r EXCEPT !.tag_id = loc[p].tag_id, !.raw_name = loc[p].repo, !.raw_tag = loc[p].tag.s, !.updated_at = loc[p].now]
\* variant: the update revives a soft-deleted row
SetAllowed_revive(p, r) ==
  [r EXCEPT !.tag_id = loc[p].tag_id, !.raw_name = loc[p].repo, !.raw_tag = loc[p].tag.s, !.deleted_at = Null]
SetAllowed(p, r) == [r EXCEPT !.tag_id = loc[p].tag_id, !.raw_name = loc[p].repo, !.raw_tag = loc[p].tag.s]
SetDeleted(p, r) == [r EXCEPT !.deleted_at = loc[p].now]
SetNotPulled(p, r) == [r EXCEPT !.is_pulled = FALSE]

\* the WHERE clauses
PullMatch(p, r) == r.tag_id = loc[p].tag_id
AllowedMatch(p, r) == r.name = loc[p].repo /\ r.tag = loc[p].tag.s
\* lines 205-210: "if tag" adds AND tag=%s
DelAllowedMatch(p, r) == r.name = loc[p].repo /\ (Truthy(loc[p].tag) => r.tag = loc[p].tag.s)
\* lines 215-228
DelPullMatch(p, r) ==
  \E t \in VTags(p), rr \in VRepos(p) :
     /\ r.tag_id = t.id /\ t.repository_id = rr.id /\ rr.full_name = loc[p].repo
     /\ (Truthy(loc[p].tag) => t.tag = loc[p].tag.s)

\* the connections whose open transaction the statement at pc[p] waits for:
\* an insert waits for an uncommitted row with its key, an update for a row lock
Blockers(p) ==
  LET others == Procs \ {p}
      locked(mine, rows) == \E r \in rows : r.ctid \in Ctids(mine)
  IN CASE pc[p] = "ins_repo" -> {q \in others : \E r \in ws[q].repos : repos_unique(r, NewRepo(p))}
       [] pc[p] = "ins_tag" -> {q \in others : \E r \in ws[q].tags : tags_unique(r, NewTag(p))}
       [] pc[p] = "ins_pull" -> {q \in others : \E r \in ws[q].image_pulls : image_pulls_unique(r, NewPull(p))}
       [] pc[p] = "ins_allowed" -> {q \in others : \E r \in ws[q].allowed_images : allowed_images_unique(r, NewAllowed(p))}
       [] pc[p] = "upd_pull" -> {q \in others : locked(ws[q].image_pulls, {r \in db.image_pulls : PullMatch(p, r)})}
       [] pc[p] = "upd_allowed" -> {q \in others : locked(ws[q].allowed_images, {r \in db.allowed_images : AllowedMatch(p, r)})}
       [] pc[p] = "del_allowed" -> {q \in others : locked(ws[q].allowed_images, {r \in db.allowed_images : DelAllowedMatch(p, r)})}
       [] pc[p] = "del_pull" -> {q \in others : locked(ws[q].image_pulls, {r \in db.image_pulls : DelPullMatch(p, r)})}
       [] OTHER -> {}

\* line 130 / 138: SELECT id FROM repos WHERE full_name; line 140 raises on None
select_repo(p) ==
  /\ pc[p] = "sel_repo"
  /\ LET found == {r \in VRepos(p) : r.full_name = loc[p].repo}
     IN IF found # {}
          THEN /\ \E r \in found : loc' = [loc EXCEPT ![p].repo_id = r.id, ![p].retry = FALSE]
               /\ pc' = [pc EXCEPT ![p] = "sel_tag"]
               /\ UNCHANGED <<ws, checkedOut, req, hist>>
          ELSE IF loc[p].retry
            THEN Abort(p)
            ELSE /\ pc' = [pc EXCEPT ![p] = "ins_repo"]
                 /\ UNCHANGED <<ws, checkedOut, req, hist, loc>>
  /\ UNCHANGED <<db, seqs, clock, db_pool, nreq, nfaults>>

\* lines 133-139: INSERT INTO repos; on IntegrityError roll back and re-select
insert_repo(p) ==
  /\ pc[p] = "ins_repo"
  /\ Blockers(p) = {}
  /\ seqs' = [seqs EXCEPT !.repos = @ + 1]
  /\ IF \E r \in db.repos : repos_unique(r, NewRepo(p))
       THEN OnIntegrityError(p, "sel_repo")
       ELSE /\ ws' = [ws EXCEPT ![p].repos = @ \cup {NewRepo(p)}]
            /\ loc' = [loc EXCEPT ![p].repo_id = seqs.repos]
            /\ pc' = [pc EXCEPT ![p] = "sel_tag"]
  /\ UNCHANGED <<db, clock, db_pool, checkedOut, req, hist, nreq, nfaults>>

\* line 143 / 151: SELECT id FROM tags; lines 154, 160-161: None raises ValueError
select_tag(p) ==
  /\ pc[p] = "sel_tag"
  /\ LET found == {r \in VTags(p) : r.repository_id = loc[p].repo_id /\ r.tag = loc[p].tag.s}
     IN IF found # {}
          THEN /\ \E r \in found : loc' = [loc EXCEPT ![p].tag_id = r.id, ![p].retry = FALSE]
               /\ pc' = [pc EXCEPT ![p] = "upd_pull"]
               /\ UNCHANGED <<ws, checkedOut, req, hist>>
          ELSE IF loc[p].retry
            THEN Abort(p)
            ELSE /\ pc' = [pc EXCEPT ![p] = "ins_tag"]
                 /\ UNCHANGED <<ws, checkedOut, req, hist, loc>>
  /\ UNCHANGED <<db, seqs, clock, db_pool, nreq, nfaults>>

\* variant: the IntegrityError of the tag insert is not caught
insert_tag_raise(p) ==
  /\ pc[p] = "ins_tag"
  /\ Blockers(p) = {}
  /\ seqs' = [seqs EXCEPT !.tags = @ + 1]
  /\ IF \E r \in db.tags : tags_unique(r, NewTag(p))
       THEN Abort(p)
       ELSE /\ ws' = [ws EXCEPT ![p].tags = @ \cup {NewTag(p)}]
            /\ loc' = [loc EXCEPT ![p].tag_id = seqs.tags]
            /\ pc' = [pc EXCEPT ![p] = "upd_pull"]
            /\ UNCHANGED <<checkedOut, req, hist>>
  /\ UNCHANGED <<db, clock, db_pool, nreq, nfaults>>
\* lines 146-152: INSERT INTO tags
insert_tag(p) ==
  /\ pc[p] = "ins_tag"
  /\ Blockers(p) = {}
  /\ seqs' = [seqs EXCEPT !.tags = @ + 1]
  /\ IF \E r \in db.tags : tags_unique(r, NewTag(p))
       THEN OnIntegrityError(p, "sel_tag")
       ELSE /\ ws' = [ws EXCEPT ![p].tags = @ \cup {NewTag(p)}]
            /\ loc' = [loc EXCEPT ![p].tag_id = seqs.tags]
            /\ pc' = [pc EXCEPT ![p] = "upd_pull"]
  /\ UNCHANGED <<db, clock, db_pool, checkedOut, req, hist, nreq, nfaults>>

\* line 164 / 171: UPDATE image_pulls SET is_pulled=true, last_pulled_at=now
update_pull(p) ==
  /\ pc[p] = "upd_pull"
  /\ Blockers(p) = {}
  /\ LET matched == {r \in VPulls(p) : PullMatch(p, r)}
     IN /\ ws' = [ws EXCEPT ![p].image_pulls = Replace(@, {SetPulled(p, r) : r \in matched})]
        /\ loc' = [loc EXCEPT ![p].rowcount = Cardinality(matched), ![p].retry = FALSE]
        /\ pc' = [pc EXCEPT ![p] = IF matched = {} /\ ~loc[p].retry THEN "ins_pull" ELSE "upd_allowed"]
  /\ UNCHANGED <<db, seqs, clock, db_pool, checkedOut, req, hist, nreq, nfaults>>

\* lines 166-171: INSERT INTO image_pulls
insert_pull(p) ==
  /\ pc[p] = "ins_pull"
  /\ Blockers(p) = {}
  /\ IF \E r \in db.image_pulls : image_pulls_unique(r, NewPull(p))
       THEN /\ OnIntegrityError(p, "upd_pull")
            /\ UNCHANGED seqs
       ELSE /\ ws' = [ws EXCEPT ![p].image_pulls = @ \cup {NewPull(p)}]
            /\ seqs' = [seqs EXCEPT !.ctid = @ + 1]
            /\ pc' = [pc EXCEPT ![p] = "upd_allowed"]
            /\ UNCHANGED loc
  /\ UNCHANGED <<db, clock, db_pool, checkedOut, req, hist, nreq, nfaults>>

\* lines 174-178 / 193-197: UPDATE allowed_images SET tag_id, raw_name, raw_tag
update_allowed(p) ==
  /\ pc[p] = "upd_allowed"
  /\ Blockers(p) = {}
  /\ LET matched == {r \in VAllowed(p) : AllowedMatch(p, r)}
     IN /\ ws' = [ws EXCEPT ![p].allowed_images = Replace(@, {SetAllowed(p, r) : r \in matched})]
        /\ loc' = [loc EXCEPT ![p].rowcount = Cardinality(matched), ![p].retry = FALSE]
        /\ pc' = [pc EXCEPT ![p] = IF matched = {} /\ ~loc[p].retry THEN "ins_allowed" ELSE "commit"]
  /\ UNCHANGED <<db, seqs, clock, db_pool, checkedOut, req, hist, nreq, nfaults>>

\* lines 181-197: INSERT INTO allowed_images
insert_allowed(p) ==
  /\ pc[p] = "ins_allowed"
  /\ Blockers(p) = {}
  /\ IF \E r \in db.allowed_images : allowed_images_unique(r, NewAllowed(p))
       THEN /\ OnIntegrityError(p, "upd_allowed")
            /\ UNCHANGED seqs
       ELSE /\ ws' = [ws EXCEPT ![p].allowed_images = @ \cup {NewAllowed(p)}]
            /\ seqs' = [seqs EXCEPT !.ctid = @ + 1]
            /\ pc' = [pc EXCEPT ![p] = "commit"]
            /\ UNCHANGED loc
  /\ UNCHANGED <<db, clock, db_pool, checkedOut, req, hist, nreq, nfaults>>

\* lines 205-212: UPDATE allowed_images SET deleted_at=now WHERE name [AND tag]
delete_allowed(p) ==
  /\ pc[p] = "del_allowed"
  /\ Blockers(p) = {}
  /\ LET matched == {r \in VAllowed(p) : DelAllowedMatch(p, r)}
     IN ws' = [ws EXCEPT ![p].allowed_images = Replace(@, {SetDeleted(p, r) : r \in matched})]
  /\ pc' = [pc EXCEPT ![p] = "del_pull"]
  /\ UNCHANGED <<db, seqs, clock, db_pool, checkedOut, req, loc, hist, nreq, nfaults>>

\* lines 215-228: UPDATE image_pulls SET is_pulled=false FROM tags t, repos r
delete_pull(p) ==
  /\ pc[p] = "del_pull"
  /\ Blockers(p) = {}
  /\ LET matched == {r \in VPulls(p) : DelPullMatch(p, r)}
     IN ws' = [ws EXCEPT ![p].image_pulls = Replace(@, {SetNotPulled(p, r) : r \in matched})]
  /\ pc' = [pc EXCEPT ![p] = "commit"]
  /\ UNCHANGED <<db, seqs, clock, db_pool, checkedOut, req, loc, hist, nreq, nfaults>>

\* lines 65-66, 72 and 337: commit, putconn, success_count += 1
commit(p) ==
  /\ pc[p] = "commit"
  /\ db' = Committed(p)
  /\ ws' = [ws EXCEPT ![p] = EmptyTables]
  /\ checkedOut' = checkedOut - 1
  /\ FinishCall(p, loc[p], TRUE)
  /\ UNCHANGED <<seqs, clock, db_pool, nreq, nfaults>>

\* a statement or the commit fails with a store error other than IntegrityError
\* (connection lost, statement timeout): lines 67-72
statement_error(p) ==
  /\ pc[p] \in StmtPcs \cup {"commit"}
  /\ nfaults < MaxFaults
  /\ nfaults' = nfaults + 1
  /\ Abort(p)
  /\ UNCHANGED <<db, seqs, clock, db_pool, nreq>>

\* connections that the connections in S (transitively) wait for
RECURSIVE WaitsFor(_, _)
WaitsFor(S, n) ==
  IF n = 0 THEN S ELSE WaitsFor(S \cup UNION {Blockers(q) : q \in S}, n - 1)

\* the store breaks a wait cycle by failing the statement of one of its
\* transactions (DeadlockDetected is not an IntegrityError): lines 67-72
deadlock_detected(p) ==
  /\ Blockers(p) # {}
  /\ p \in WaitsFor(Blockers(p), NumProcs)
  /\ Abort(p)
  /\ UNCHANGED <<db, seqs, clock, db_pool, nreq, nfaults>>

\* ------------------------------------------------------- specifications
Engine(p) ==
  \/ dispatch(p) \/ respond(p)
  \/ select_repo(p) \/ insert_repo(p) \/ select_tag(p) \/ insert_tag(p)
  \/ update_pull(p) \/ insert_pull(p) \/ update_allowed(p) \/ insert_allowed(p)
  \/ delete_allowed(p) \/ delete_pull(p)
  \/ commit(p) \/ statement_error(p)

\* concurrent request threads
Next ==
  \E p \in Procs :
    \/ webhook(p, EnginePayloads, MaxRequests)
    \/ Engine(p)
    \/ deadlock_detected(p)

Spec == Init /\ [][Next]_vars

\* one request thread, requests one after the other
NextSeq ==
  \/ webhook(1, SeqPayloads, MaxRequests)
  \/ Engine(1)

SpecSeq == Init /\ [][NextSeq]_vars

\* one request with a body of the normalizer family
NextNorm ==
  \/ webhook(1, NormPayloads, 1)
  \/ Engine(1)

SpecNorm == Init /\ [][NextNorm]_vars

\* lines 344-352 with 58-61: GET /healthz asks the pool for a connection; a
\* missing pool or an exhausted one raises and is answered db_error
healthz(p, limit) ==
  /\ pc[p] = "idle"
  /\ nreq < limit
  /\ nreq' = nreq + 1
  /\ IF ~db_pool \/ checkedOut >= MaxConn
       THEN /\ req' = [req EXCEPT ![p] = [NoReq EXCEPT !.status = "db_error"]]
            /\ UNCHANGED <<checkedOut, pc>>
       ELSE /\ req' = [req EXCEPT ![p] = [NoReq EXCEPT !.status = "health"]]
            /\ checkedOut' = checkedOut + 1
            /\ pc' = [pc EXCEPT ![p] = "health"]
  /\ UNCHANGED <<db, seqs, ws, clock, db_pool, loc, hist, nfaults>>

\* variant: the connection of the health check is not given back
healthz_select_leak(p) ==
  /\ pc[p] = "health"
  /\ checkedOut' = checkedOut
  /\ req' = [req EXCEPT ![p].status = "healthy"]
  /\ pc' = [pc EXCEPT ![p] = "idle"]
  /\ UNCHANGED <<db, seqs, ws, clock, db_pool, loc, hist, nreq, nfaults>>
\* lines 349, 65-66, 72 and 352: SELECT 1, commit, putconn, answer ok
healthz_select(p) ==
  /\ pc[p] = "health"
  /\ checkedOut' = checkedOut - 1
  /\ req' = [req EXCEPT ![p].status = "healthy"]
  /\ pc' = [pc EXCEPT ![p] = "idle"]
  /\ UNCHANGED <<db, seqs, ws, clock, db_pool, loc, hist, nreq, nfaults>>

\* lines 349, 67-72 and 350-351: SELECT 1 or the commit fails: rollback,
\* putconn, answer db_error
healthz_error(p) ==
  /\ pc[p] = "health"
  /\ nfaults < MaxFaults
  /\ nfaults' = nfaults + 1
  /\ checkedOut' = checkedOut - 1
  /\ req' = [req EXCEPT ![p].status = "db_error"]
  /\ pc' = [pc EXCEPT ![p] = "idle"]
  /\ UNCHANGED <<db, seqs, ws, clock, db_pool, loc, hist, nreq>>

\* concurrent request threads serving /webhook and /healthz
NextPool ==
  \E p \in Procs :
    \/ webhook(p, PoolPayloads, MaxRequests)
    \/ healthz(p, MaxRequests)
    \/ healthz_select(p)
    \/ healthz_error(p)
    \/ Engine(p)
    \/ deadlock_detected(p)

SpecPool == Init /\ [][NextPool]_vars

\* ---------------------------------------------------------- properties
\* the rows of store d that belong to one (repo, tag) pair or one repository
PairTags(d, repo, tag) ==
  {t \in d.tags : t.tag = tag /\ \E r \in d.repos : r.id = t.repository_id /\ r.full_name = repo}
RepoTags(d, repo) ==
  {t \in d.tags : \E r \in d.repos : r.id = t.repository_id /\ r.full_name = repo}
PairPulls(d, repo, tag) == {x \in d.image_pulls : \E t \in PairTags(d, repo, tag) : x.tag_id = t.id}
RepoPulls(d, repo) == {x \in d.image_pulls : \E t \in RepoTags(d, repo) : x.tag_id = t.id}
PairAllowed(d, repo, tag) == {a \in d.allowed_images : a.name = repo /\ a.tag = tag}

\* this step is the commit of thread p's reconcile call
Commits(p) == pc[p] = "commit" /\ pc'[p] = "dispatch" /\ hist'.ok

\* thread p's request has reconciled this push pair without error
PushedOk(p, pair) ==
  /\ ~req[p].is_delete
  /\ \E i \in 1..Len(req[p].log) : req[p].log[i].pair = pair /\ req[p].log[i].ok

\* C1: in every reachable state, whatever the interleaving of concurrent
\* pushes, the committed store has at most one Repository row per full name,
\* one Tag row per (repository_id, tag), one PullRecord row per tag_id and one
\* AllowedImage row per (name, tag).
C1_NoDuplicateRows ==
  /\ \A a, b \in db.repos : a.full_name = b.full_name => a = b
  /\ \A a, b \in db.tags : (a.repository_id = b.repository_id /\ a.tag = b.tag) => a = b
  /\ \A a, b \in db.image_pulls : a.tag_id = b.tag_id => a = b
  /\ \A a, b \in db.allowed_images : (a.name = b.name /\ a.tag = b.tag) => a = b

\* two threads have pushed the same pair, and the one that committed last
\* lost an insert race on the way
C1_Witness ==
  /\ hist.kind = "push" /\ hist.ok /\ hist.txns = 2
  /\ \E p, q \in Procs :
       /\ p # q
       /\ PushedOk(p, Pair(JStr(hist.repo), hist.tag))
       /\ PushedOk(q, Pair(JStr(hist.repo), hist.tag))
  /\ PairAllowed(db, hist.repo, hist.tag.s) # {}

C3_DeleteIdempotent ==
  [][\A p \in Procs :
       (Commits(p) /\ loc[p].kind = "delete" /\ hist'.repeat) =>
         /\ db'.allowed_images = db.allowed_images
         /\ db'.image_pulls = db.image_pulls
    ]_vars

\* C4: a committed AllowedImage row whose deleted_at is set keeps it set in
\* every step, and a push that commits leaves the pair's row with the push's
\* tag_id, raw_name and raw_tag.
C4_DeletedAtMonotonic ==
  [][/\ \A r \in db.allowed_images :
          r.deleted_at # Null => \E n \in db'.allowed_images : n.ctid = r.ctid /\ n.deleted_at # Null
     /\ \A p \in Procs :
          (Commits(p) /\ loc[p].kind = "push") =>
            /\ PairAllowed(db', loc[p].repo, loc[p].tag.s) # {}
            /\ \A a \in PairAllowed(db', loc[p].repo, loc[p].tag.s) :
                 /\ a.tag_id = loc[p].tag_id
                 /\ \E t \in PairTags(db', loc[p].repo, loc[p].tag.s) : t.id = a.tag_id
                 /\ a.raw_name = loc[p].repo /\ a.raw_tag = loc[p].tag.s
    ]_vars

\* a push has committed on a pair whose row is soft-deleted
C4_Witness ==
  /\ hist.kind = "push" /\ hist.ok
  /\ \E a \in PairAllowed(db, hist.repo, hist.tag.s) : a.deleted_at # Null /\ a.raw_tag = hist.tag.s

\* C5: a delete with a present tag (the empty string included) changes only
\* the AllowedImage rows of (repo, tag) and the PullRecord of (repo, tag); a
\* delete with an absent tag changes only rows of that repository.
C5_DeleteScope ==
  [][\A p \in Procs :
       (Commits(p) /\ loc[p].kind = "delete") =>
         LET repo == loc[p].repo
             tg == loc[p].tag
         IN /\ \A a \in db.allowed_images :
                 ~(a.name = repo /\ (tg # JNull => a.tag = tg.s)) => a \in db'.allowed_images
            /\ \A x \in db.image_pulls :
                 x \notin (IF tg # JNull THEN PairPulls(db, repo, tg.s) ELSE RepoPulls(db, repo))
                   => x \in db'.image_pulls
    ]_vars

\* C6: a row that appears in allowed_images is approved and global, and no
\* step changes is_global or status of a row that is there.
C6_AutoApproved ==
  [][\A n \in db'.allowed_images :
       IF \E r \in db.allowed_images : r.ctid = n.ctid
         THEN \A r \in db.allowed_images :
                r.ctid = n.ctid => (n.is_global = r.is_global /\ n.status = r.status)
         ELSE n.is_global /\ n.status = "approved"
    ]_vars

\* a delete has committed on a row that a push created
C6_Witness ==
  /\ hist.kind = "delete" /\ hist.ok
  /\ \E a \in db.allowed_images : a.deleted_at = hist.now /\ a.is_global /\ a.status = "approved"

\* the data node of a payload: event_data, else artifact, else the root
DataNode(pl) == Or(Or(Get(pl, "event_data"), Get(pl, "artifact")), pl)
\* a delete-typed payload with a resolvable repository name and resources = []
IsRepoLevelDelete(pl) ==
  /\ IsDict(pl) /\ IsStr(Get(pl, "type")) /\ ContainsDelete(Lower(Get(pl, "type").s))
  /\ IsDict(DataNode(pl)) /\ IsDict(Get(DataNode(pl), "repository"))
  /\ Truthy(Or(Get(Get(DataNode(pl), "repository"), "repo_full_name"), Get(Get(DataNode(pl), "repository"), "name")))
  /\ Get(DataNode(pl), "resources") = JEmptyList
RepoNameOf(pl) ==
  Or(Get(Get(DataNode(pl), "repository"), "repo_full_name"), Get(Get(DataNode(pl), "repository"), "name"))

\* C7: a delete-typed payload whose data node has a resolvable repository name
\* and an empty resources list is classified as delete and normalized to the
\* single pair (repo, absent).
C7_RepoLevelDelete ==
  \A p \in Procs :
    (req[p].status # "none" /\ IsRepoLevelDelete(req[p].payload)) =>
      /\ req[p].is_delete
      /\ req[p].items = <<Pair(RepoNameOf(req[p].payload), JNull)>>

GoldenModern ==
  JDict([event_data |-> JDict([repository |-> JDict([repo_full_name |-> JStr("ns/img")]),
                               resources |-> JList(<<JDict([tags |-> JList(<<JStr("v1"), JStr("v2")>>)])>>)])])
GoldenLegacy ==
  JDict([type |-> JStr("push_image"), repository |-> JDict([name |-> JStr("ns/img")]),
         push_data |-> JDict([tag |-> JStr("v1")])])

\* C8: the pairs of the modern strategy are returned when there are any, and
\* the legacy root shape is used only when there are none; the modern golden
\* payload yields (ns/img, v1), (ns/img, v2) in that order and the legacy one
\* yields (ns/img, v1), both as push.
C8_StrategyOrder ==
  \A p \in Procs :
    (IsDict(req[p].payload) /\ req[p].status \in {"processing", "ok", "ignored"}) =>
      /\ req[p].payload = GoldenModern =>
           /\ req[p].items = <<Pair(JStr("ns/img"), JStr("v1")), Pair(JStr("ns/img"), JStr("v2"))>>
           /\ ~req[p].is_delete
      /\ req[p].payload = GoldenLegacy =>
           /\ req[p].items = <<Pair(JStr("ns/img"), JStr("v1"))>>
           /\ ~req[p].is_delete
      /\ IF Len(strategy_modern(req[p].payload).v) > 0
           THEN req[p].items = strategy_modern(req[p].payload).v
           ELSE req[p].items = strategy_legacy(req[p].payload).v

\* a request whose body matches both shapes with different pairs is processed
C8_Witness ==
  \E p \in Procs :
    /\ req[p].status = "ok" /\ IsDict(req[p].payload)
    /\ Len(strategy_modern(req[p].payload).v) > 0
    /\ ~strategy_legacy(req[p].payload).err
    /\ Len(strategy_legacy(req[p].payload).v) > 0
    /\ strategy_legacy(req[p].payload).v # strategy_modern(req[p].payload).v
    /\ Len(req[p].log) = Len(strategy_modern(req[p].payload).v)

\* C9: a JSON object from which the normalizer extracts zero pairs is answered
\* "ignored", and no reconcile call is made for it.
C9_IgnoredWhenNoPairs ==
  \A p \in Procs :
    ( /\ req[p].status # "none" /\ IsDict(req[p].payload)
      /\ ~extract_harbor_resources(req[p].payload).err
      /\ Len(extract_harbor_resources(req[p].payload).v) = 0 ) =>
        /\ req[p].status = "ignored"
        /\ req[p].log = <<>>
        /\ db = EmptyTables

\* C10: the loop attempts the pairs in list order whatever the outcome of the
\* earlier ones, and the processed count is the number of pairs that raised
\* no error.
C10_FailureIsolation ==
  \A p \in Procs :
    req[p].status \in {"processing", "ok"} =>
      /\ Len(req[p].log) = req[p].idx - 1
      /\ \A i \in 1..Len(req[p].log) : req[p].log[i].pair = req[p].items[i]
      /\ req[p].success_count = Cardinality({i \in 1..Len(req[p].log) : req[p].log[i].ok})
      /\ req[p].status = "ok" => Len(req[p].log) = Len(req[p].items)

\* a request of two pairs is answered after its first pair failed and its
\* second succeeded
C10_Witness ==
  \E p \in Procs :
    /\ req[p].status = "ok" /\ Len(req[p].items) = 2
    /\ ~req[p].log[1].ok /\ req[p].log[2].ok
    /\ req[p].success_count = 1

\* the pair that thread p's loop is about to handle
CurrentPair(p) == req[p].items[req[p].idx]
\* this step is one iteration of the loop of thread p leaving line 330
Iterates(p) == pc[p] = "dispatch" /\ req[p].idx <= Len(req[p].items) /\ <<req'[p], loc'[p]>> # <<req[p], loc[p]>>
\* the iteration could not get a connection: the call raised at line 58-61
PoolFailure(p, kind) ==
  /\ req'[p].idx = req[p].idx + 1 /\ ~hist'.ok /\ hist'.kind = kind
  /\ hist'.repo = CurrentPair(p)[1].s /\ hist'.tag = CurrentPair(p)[2]

\* C11: for a delete event every pair goes to process_delete_event with the
\* pair's repository and tag (absent tag included); for any other event
\* process_pull_event is entered only with a present tag, and a pair with an
\* absent tag changes nothing in the store, raises nothing and is counted.
C11_Routing ==
  [][\A p \in Procs :
       Iterates(p) =>
         IF req[p].is_delete
           THEN \/ /\ loc'[p].kind = "delete" /\ pc'[p] = "del_allowed"
                   /\ loc'[p].repo = CurrentPair(p)[1].s /\ loc'[p].tag = CurrentPair(p)[2]
                \/ PoolFailure(p, "delete")
           ELSE /\ loc'[p].kind # "delete"
                /\ hist' # hist => hist'.kind = "push"
                /\ (loc'[p].kind = "push" \/ hist' # hist) => CurrentPair(p)[2] # JNull
                /\ CurrentPair(p)[2] = JNull =>
                     /\ db' = db /\ ws' = ws /\ loc' = loc /\ hist' = hist /\ pc'[p] = "dispatch"
                     /\ req'[p].idx = req[p].idx + 1
                     /\ req'[p].success_count = req[p].success_count + 1
    ]_vars

\* a push event with a tagless pair and a delete event with a tagless pair
\* have both been handled: the first without a call, the second by a delete
C11_Witness ==
  /\ hist.kind = "delete" /\ hist.ok /\ hist.tag = JNull
  /\ \E p \in Procs :
       /\ ~req[p].is_delete /\ req[p].status = "ok" /\ req[p].success_count = 1
       /\ req[p].log[1].pair[2] = JNull

\* this step ends the reconcile call of thread p with an exception
Raises(p) == pc[p] \in StmtPcs \cup {"commit"} /\ pc'[p] = "dispatch" /\ ~hist'.ok

\* C12: a push call never ends with an exception because of a uniqueness
\* violation: a push that raises was hit by a store fault or chosen as
\* deadlock victim, and a push that caught an IntegrityError and re-read the
\* row goes on to its next statement.
C12_ConflictsHandled ==
  [][\A p \in Procs :
       /\ (Raises(p) /\ loc[p].kind = "push") => (nfaults' # nfaults \/ Blockers(p) # {})
       /\ (pc[p] \in {"sel_repo", "sel_tag"} /\ loc[p].retry /\ nfaults' = nfaults /\ pc'[p] # pc[p])
            => pc'[p] \in {"sel_tag", "upd_pull"}
    ]_vars

\* a push has committed after losing an insert race, and another push that
\* lost one has run all its statements and is about to commit
C12_Witness ==
  /\ hist.kind = "push" /\ hist.ok /\ hist.txns = 2
  /\ \E p \in Procs : pc[p] = "commit" /\ loc[p].kind = "push" /\ loc[p].txns = 2

\* C13: when a push commits, the pair's single PullRecord carries that call's
\* timestamp and the pair's single AllowedImage row that call's tag_id,
\* raw_name and raw_tag, whatever another push of the pair committed before:
\* the values in the store are those of the push that committed last.
C13_LastCommitWins ==
  [][\A p \in Procs :
       (Commits(p) /\ loc[p].kind = "push") =>
         /\ Cardinality(PairPulls(db', loc[p].repo, loc[p].tag.s)) = 1
         /\ \A x \in PairPulls(db', loc[p].repo, loc[p].tag.s) :
              x.tag_id = loc[p].tag_id /\ x.is_pulled /\ x.last_pulled_at = loc[p].now
         /\ Cardinality(PairAllowed(db', loc[p].repo, loc[p].tag.s)) = 1
         /\ \A a \in PairAllowed(db', loc[p].repo, loc[p].tag.s) :
              a.tag_id = loc[p].tag_id /\ a.raw_name = loc[p].repo /\ a.raw_tag = loc[p].tag.s
    ]_vars

\* the push that committed last started before the push that created the
\* pair's rows: its older timestamp has replaced the creator's
C13_Witness ==
  /\ hist.kind = "push" /\ hist.ok
  /\ \E p, q \in Procs :
       /\ p # q
       /\ PushedOk(p, Pair(JStr(hist.repo), hist.tag))
       /\ PushedOk(q, Pair(JStr(hist.repo), hist.tag))
  /\ \E a \in PairAllowed(db, hist.repo, hist.tag.s) : a.created_at > hist.now
  /\ \A x \in PairPulls(db, hist.repo, hist.tag.s) : x.last_pulled_at = hist.now

\* C14: for every request body that is a JSON object the normalizer returns a
\* pair list and raises nothing.
C14_NormalizerTotal ==
  \A p \in Procs :
    (req[p].status # "none" /\ IsDict(req[p].payload)) => ~extract_harbor_resources(req[p].payload).err

\* C15: a request one of whose pairs could not get a connection from the pool
\* is not answered with the success response.
C15_PoolFailureSurfaces ==
  \A p \in Procs :
    (~db_pool /\ \E i \in 1..Len(req[p].log) : ~req[p].log[i].ok) => req[p].status # "ok"

\* C16: a reconcile call runs all its statements in one transaction: no call,
\* running or finished, has opened a second one.
C16_SingleTransaction ==
  /\ \A p \in Procs : loc[p].txns <= 1
  /\ hist.txns <= 1

\* C17: when a push commits, the committed store holds the Repository and the
\* Tag the call resolved, a PullRecord of that Tag with is_pulled set and an
\* AllowedImage row of (repo, tag) pointing at that Tag, also when the call
\* lost an insert race on the way.
C17_PushPostcondition ==
  [][\A p \in Procs :
       (Commits(p) /\ loc[p].kind = "push") =>
         \E r \in db'.repos, t \in db'.tags :
           /\ r.full_name = loc[p].repo /\ r.id = loc[p].repo_id
           /\ t.repository_id = r.id /\ t.tag = loc[p].tag.s /\ t.id = loc[p].tag_id
           /\ \E x \in db'.image_pulls : x.tag_id = t.id /\ x.is_pulled
           /\ \E a \in db'.allowed_images : a.name = loc[p].repo /\ a.tag = loc[p].tag.s /\ a.tag_id = t.id
    ]_vars

\* a push of a second tag of the repository has committed after losing the
\* race for the Tag row, and the store holds all rows of both tags
C17_Witness ==
  /\ hist.kind = "push" /\ hist.ok /\ hist.txns = 2 /\ hist.tag = JStr("v2")
  /\ Cardinality(db.repos) = 1 /\ Cardinality(db.tags) = 2
  /\ Cardinality(db.image_pulls) = 2 /\ Cardinality(db.allowed_images) = 2
  /\ \A x \in db.image_pulls : x.is_pulled

\* C18: a reconcile call that ends with an exception commits nothing: the
\* step that ends it leaves the committed tables as they are and discards
\* every row the call wrote, and the committed tables change only in the
\* commit step of a call that returns.
C18_FailureAtomic ==
  [][/\ \A p \in Procs : Raises(p) => (db' = db /\ ws'[p] = EmptyTables)
     /\ db' # db => \E p \in Procs : Commits(p) /\ db' = Committed(p)
    ]_vars

\* a push has raised after inserting its Repository and Tag rows: the
\* sequences have moved on and the store holds no row
C18_Witness ==
  /\ hist.kind = "push" /\ ~hist.ok /\ db_pool
  /\ seqs.repos > 1 /\ seqs.tags > 1
  /\ db = EmptyTables /\ \A p \in Procs : ws[p] = EmptyTables

\* the threads that are inside a with get_db_cursor() block
Holding == {p \in Procs : pc[p] \in StmtPcs \cup {"commit", "health"}}

\* C19: the connections handed out are exactly those of the threads inside a
\* get_db_cursor block, never more than the pool's maxconn, and none when no
\* request is in flight.
C19_ConnectionsReleased ==
  /\ checkedOut = Cardinality(Holding)
  /\ checkedOut <= MaxConn
  /\ (\A p \in Procs : pc[p] = "idle") => checkedOut = 0

\* no request is in flight and no connection is out, after a health check was
\* answered, a push committed, a second insert into repos was attempted and
\* the last reconcile call was rolled back
C19_Witness ==
  /\ checkedOut = 0 /\ db_pool
  /\ \A p \in Procs : pc[p] = "idle"
  /\ \E p \in Procs : req[p].status \in {"healthy", "db_error"}
  /\ db.repos # {} /\ seqs.repos > 2
  /\ hist.kind # "none" /\ ~hist.ok

\* C20: the committed rows of a pair are those of a serial order of the pushes
\* and deletes that committed: a delete that reset is_pulled of the pair's
\* PullRecord also soft-deleted the pair's AllowedImage row, so no pair has
\* an AllowedImage row with deleted_at null next to a PullRecord with
\* is_pulled false.
C20_PushDeleteSerializable ==
  \A a \in db.allowed_images :
    \A x \in PairPulls(db, a.name, a.tag) : a.deleted_at = Null => x.is_pulled

====
